---- MODULE Spec2Model ----
(***************************************************************************)
(* Model of the notification fan-out engine of go-messaging:               *)
(*   - the subscription store and its due query (repository + service),    *)
(*   - the dispatch pipeline (NotificationDispatchServiceImpl),            *)
(*   - the per-user rate limiter (model.RateLimiter),                      *)
(*   - the per-category scheduler (scheduler.NotificationScheduler).       *)
(* Store and dispatch time is counted in minutes, rate-limiter time in     *)
(* half seconds.                                                           *)
(***************************************************************************)
EXTENDS Integers, Sequences, FiniteSets, TLC

\* ------------------------------------------------------------------------
\* Bounds of the model
\* ------------------------------------------------------------------------
MaxTime == 3          \* last minute the store clock reaches
MaxCalls == 2         \* DispatchNotification calls per dispatcher
MaxSubs == 2          \* subscription rows created while dispatching
MaxClock == 126       \* last half second the rate limiter clock reaches
MaxRequests == 12     \* requests of one scripted message sequence
MaxSweepClock == 7205  \* last half second the clock reaches when the sweep runs
MaxSweepSteps == 5     \* rate limiter calls and sweep runs of one sequence
MaxLockClock == 3      \* last half second the clock reaches while calls contend for the lock
MaxLockCalls == 2      \* rate limiter calls per goroutine

\* ------------------------------------------------------------------------
\* Program constants and fixed data
\* ------------------------------------------------------------------------
NULL == -1                 \* a nil *time.Time / SQL NULL timestamp
MAX_MESSAGE_LENGTH == 4096
RATE_LIMIT_MESSAGES == 10                  \* messages per window
RATE_LIMIT_WINDOW == 120                   \* time.Minute, in half seconds
MIN_MESSAGE_INTERVAL == 2                  \* 1 * time.Second, in half seconds
CLEANUP_AGE == 7200                        \* time.Hour, in half seconds

UserIDs == {1, 2}                          \* registered users
DueUsers == {1}                            \* users exercising the due query
SubIDs == 1..(Cardinality(UserIDs) * 2)    \* ids the UNIQUE(user_id, notification_type_id) constraint allows
Codes == {"coinbase", "weather", "nosuch"} \* codes a caller may pass
PrefIntervals == {-1, 0, 1, 3}             \* preferences.Interval values a caller may pass
PrefArgs == {<<>>} \cup {<<i>> : i \in PrefIntervals}   \* <<>> is a nil *SubscriptionPreferences
MsgLens == {60, 4097}                      \* lengths of generated content (a long location makes it exceed the limit)
Dispatchers == {"scheduler"}               \* tasks that call DispatchNotification
DirectLens == MsgLens \cup {0}             \* lengths of messages handed to DispatchToSubscription
Loops == {"coinbase", "weather"}           \* categories of the schedule that have a seeded type
SubTasks == {"a", "b"}                     \* goroutines of bot handlers running Subscribe
RLTasks == {"m1", "m2"}                    \* goroutines handling inbound messages
ChatUsers == {1}                           \* users sending messages to the bot
Gaps == {1, 2, 3, 20, 100}                 \* half seconds between two inbound messages
SweepGaps == {0, 1, 2, 7200}               \* half seconds between two steps when the sweep runs

VARIABLES
    now,      \* store clock, minutes (SQL NOW() and time.Now())
    types,    \* notification_types: id -> [code, default_interval_minutes, is_active]
    subs,     \* subscriptions: id -> row
    nextID,   \* next BIGSERIAL id of subscriptions
    query,    \* last answer of GetDueSubscriptions, <<>> when the store changed since
    tasks,    \* per Subscribe call in flight: its position and what it loaded
    logs,     \* notification_logs, in insertion order
    sent,     \* messages accepted by the delivery channel, in order
    disp,     \* per dispatcher: position and locals of DispatchNotification
    clock,    \* rate limiter clock, half seconds (time.Now())
    limiter,  \* RateLimiter.users: user id -> UserLimiter
    reply,    \* <<>> or the answer of the last IsAllowed call
    observed, \* a 60-second window chosen by an observer and the admits seen in it
    history,  \* what a scripted sequence of rate limiter calls did, in order
    mutex,    \* RateLimiter.mutex: "free" or the call whose Lock() returned
    callers,  \* per goroutine calling the rate limiter: position and locals of its call
    ctxDone,  \* the context handed to the scheduler is cancelled
    loops,    \* per scheduled category: its runNotificationSchedule goroutine and ticker
    starter   \* position of NotificationScheduler.Start

storeVars == <<now, types, subs, nextID, query, tasks>>
dispVars == <<logs, sent, disp>>
lockVars == <<mutex, callers>>
rlVars == <<clock, limiter, reply, observed, history, mutex, callers>>
schedVars == <<ctxDone, loops, starter>>
vars == <<now, types, subs, nextID, query, tasks, logs, sent, disp, clock, limiter, reply, observed,
          history, mutex, callers, ctxDone, loops, starter>>

\* ------------------------------------------------------------------------
\* entity.SubscriptionPreferences <-> JSONB column
\* A preferences value is modelled by its Interval field; the JSON document
\* by the sequence of its "interval" member (empty when the key is absent).
\* ------------------------------------------------------------------------
\* SubscriptionPreferences.Value: `json:"interval,omitempty"` drops a zero
Value(interval) == IF interval = 0 THEN <<>> ELSE <<interval>>

\* SubscriptionPreferences.Scan: a missing key leaves the zero value
Scan(json) == IF json = <<>> THEN 0 ELSE json[1]

\* ------------------------------------------------------------------------
\* db.WithContext(ctx): a store call whose outcome would be ok succeeds only
\* while the context it is made with is not cancelled
\* ------------------------------------------------------------------------
\* Mutant: the error of a store call is not looked at
WithContext_ErrorIgnored(ok) == ~ctxDone

WithContext(ok) == ok /\ ~ctxDone

\* ------------------------------------------------------------------------
\* Notification type repository
\* ------------------------------------------------------------------------
\* GetByCode: the set of matching type ids (empty: gorm.ErrRecordNotFound)
GetByCode(code) == {t \in DOMAIN types : types[t].code = code}

\* ------------------------------------------------------------------------
\* Subscription repository
\* ------------------------------------------------------------------------
\* Mutant: the preference interval is ignored
IntervalMinutes_NoPreference(row) ==
    types[row.notification_type_id].default_interval_minutes

\* COALESCE(CAST(preferences->>'interval' AS INTEGER), (SELECT default_interval_minutes ...))
IntervalMinutes(row) ==
    IF row.preferences # <<>> THEN row.preferences[1]
    ELSE types[row.notification_type_id].default_interval_minutes

\* Mutant: the IS NULL alternative is missing (a NULL timestamp compares unknown)
GetDueForNotification_NoNull(typeID) ==
    {id \in DOMAIN subs :
        /\ subs[id].notification_type_id = typeID
        /\ subs[id].is_active
        /\ subs[id].last_notified_at # NULL
        /\ subs[id].last_notified_at <= now - IntervalMinutes(subs[id])}

\* Mutant: the OR alternative is not parenthesised, so AND binds first
GetDueForNotification_NoParens(typeID) ==
    {id \in DOMAIN subs :
        \/ /\ subs[id].notification_type_id = typeID
           /\ subs[id].is_active
           /\ subs[id].last_notified_at = NULL
        \/ /\ subs[id].last_notified_at # NULL
           /\ subs[id].last_notified_at <= now - IntervalMinutes(subs[id])}

\* GetDueForNotification: the ids of the rows the query selects at clock now.
\* gorm wraps the second Where in parentheses because it contains " OR ".
GetDueForNotification(typeID) ==
    {id \in DOMAIN subs :
        /\ subs[id].notification_type_id = typeID
        /\ subs[id].is_active
        /\ \/ subs[id].last_notified_at = NULL
           \/ subs[id].last_notified_at <= now - IntervalMinutes(subs[id])}

\* GetByUserAndType
GetByUserAndType(u, t) ==
    {id \in DOMAIN subs : subs[id].user_id = u /\ subs[id].notification_type_id = t}

\* Mutant: the UPDATE has no WHERE id = ?
UpdateLastNotified_AllRows(id) ==
    [k \in DOMAIN subs |-> [subs[k] EXCEPT !.last_notified_at = now]]

\* UpdateLastNotified: UPDATE ... SET last_notified_at = now WHERE id = ?
UpdateLastNotified(id) ==
    IF id \in DOMAIN subs
    THEN [subs EXCEPT ![id].last_notified_at = now]
    ELSE subs

\* ------------------------------------------------------------------------
\* model.ValidateMessageString on a message of the given length
\* ------------------------------------------------------------------------
\* Mutant: the empty message is not refused
ValidateMessageString_NoEmptyCheck(len) == len <= MAX_MESSAGE_LENGTH

ValidateMessageString(len) == len # 0 /\ len <= MAX_MESSAGE_LENGTH

\* ------------------------------------------------------------------------
\* Initial state: seeded notification types, no subscriptions, no logs
\* ------------------------------------------------------------------------
IdleTask == [pc |-> "idle", user |-> 0, type |-> 0, existing |-> <<>>, ret |-> "none"]

IdleCaller ==
    [pc |-> "idle", user |-> 0, withCtx |-> FALSE, go |-> "none", blocked |-> FALSE,
     at |-> 0, d |-> <<>>, ret |-> "none", calls |-> 0]

IdleDispatcher ==
    [pc |-> "idle", code |-> "", due |-> <<>>, i |-> 0, content |-> 0,
     ret |-> "none", calls |-> 0, cur |-> <<>>, res |-> <<>>]

Init ==
    /\ now = 0
    /\ types = (1 :> [code |-> "coinbase", default_interval_minutes |-> 1, is_active |-> TRUE]) @@
               (3 :> [code |-> "weather", default_interval_minutes |-> 4, is_active |-> TRUE])
    /\ subs = <<>>
    /\ nextID = 1
    /\ query = <<>>
    /\ tasks = [k \in SubTasks |-> IdleTask]
    /\ logs = <<>>
    /\ sent = <<>>
    /\ disp = [p \in Dispatchers |-> IdleDispatcher]
    /\ clock = 0
    /\ limiter = <<>>
    /\ reply = <<>>
    /\ observed = [open |-> FALSE, start |-> 0, admits |-> 0, aligned |-> FALSE]
    /\ history = <<>>
    /\ mutex = "free"
    /\ callers = [k \in RLTasks |-> IdleCaller]
    /\ ctxDone = FALSE
    /\ loops = [c \in Loops |-> [stopped |-> FALSE, tick |-> FALSE]]
    /\ starter = "waiting"

\* ------------------------------------------------------------------------
\* Store operations
\* ------------------------------------------------------------------------
\* One minute passes
Tick ==
    /\ now < MaxTime
    /\ now' = now + 1
    /\ query' = <<>>
    /\ UNCHANGED <<types, subs, nextID, tasks, dispVars, rlVars, schedVars>>

\* SubscriptionServiceImpl.Subscribe(user, chat, code, preferences)
Subscribe(u, code, prefs) ==
    /\ GetByCode(code) # {}
    /\ \E t \in GetByCode(code) :
          /\ types[t].is_active
          /\ LET existing == GetByUserAndType(u, t) IN
             IF existing # {}
             THEN /\ \E id \in existing :
                        subs' = [subs EXCEPT
                                   ![id].is_active = TRUE,
                                   ![id].preferences =
                                       IF prefs # <<>> THEN Value(prefs[1])
                                       ELSE Value(Scan(subs[id].preferences))]
                  /\ UNCHANGED nextID
             ELSE /\ subs' = subs @@ (nextID :>
                        [user_id |-> u,
                         notification_type_id |-> t,
                         is_active |-> TRUE,
                         preferences |->
                             IF prefs # <<>> THEN Value(prefs[1])
                             ELSE Value(types[t].default_interval_minutes),
                         last_notified_at |-> NULL])
                  /\ nextID' = nextID + 1
    /\ query' = <<>>
    /\ UNCHANGED <<now, types, tasks, dispVars, rlVars, schedVars>>

\* GormSubscriptionRepository.Update(subscription): Save of a loaded row with
\* the given is_active flag and preferences
Update(id, active, interval) ==
    /\ id \in DOMAIN subs
    /\ subs' = [subs EXCEPT ![id].is_active = active,
                            ![id].preferences = Value(interval)]
    /\ query' = <<>>
    /\ UNCHANGED <<now, types, nextID, tasks, dispVars, rlVars, schedVars>>

\* SubscriptionServiceImpl.MarkNotified(id), called on its own
MarkNotified(id) ==
    /\ id \in DOMAIN subs
    /\ subs' = UpdateLastNotified(id)
    /\ query' = <<>>
    /\ UNCHANGED <<now, types, nextID, tasks, dispVars, rlVars, schedVars>>

\* SubscriptionServiceImpl.GetDueSubscriptions(code), store reachable
GetDueSubscriptions(code) ==
    /\ query' = <<[code |-> code,
                   found |-> GetByCode(code) # {},
                   result |-> UNION {GetDueForNotification(t) : t \in GetByCode(code)}]>>
    /\ UNCHANGED <<now, types, subs, nextID, tasks, dispVars, rlVars, schedVars>>

NextDue ==
    \/ Tick
    \/ \E u \in DueUsers, code \in Codes, prefs \in PrefArgs : Subscribe(u, code, prefs)
    \/ \E id \in SubIDs, active \in BOOLEAN, interval \in PrefIntervals : Update(id, active, interval)
    \/ \E id \in SubIDs : MarkNotified(id)
    \/ \E code \in Codes : GetDueSubscriptions(code)

SpecDue == Init /\ [][NextDue]_vars

\* ------------------------------------------------------------------------
\* Claims about the due decision (checked under SpecDue)
\* ------------------------------------------------------------------------
\* Active rows of the queried category, as seen by the last GetDueSubscriptions
Answered == query # <<>>
Candidates ==
    {id \in DOMAIN subs :
        /\ subs[id].is_active
        /\ subs[id].notification_type_id \in GetByCode(query[1].code)}
Default(id) == types[subs[id].notification_type_id].default_interval_minutes
Preferred(id) == Scan(subs[id].preferences)
\* effective_interval of the specification: the preference when > 0, else the default
EffectiveInterval(id) == IF Preferred(id) > 0 THEN Preferred(id) ELSE Default(id)
Elapsed(id) == now - subs[id].last_notified_at

\* C4: an active subscription of the queried category with a non-null
\* last_notified_at is absent from GetDue's result when
\* now - last_notified_at < effective_interval and present when it is >=.
C4_DueIffIntervalElapsed ==
    Answered =>
        \A id \in Candidates :
            subs[id].last_notified_at # NULL =>
                (id \in query[1].result <=> Elapsed(id) >= EffectiveInterval(id))

\* C5: every active subscription whose last_notified_at is NULL is in
\* GetDue's result for its category, whatever the default and preference intervals.
C5_NullAlwaysDue ==
    Answered =>
        \A id \in Candidates :
            subs[id].last_notified_at = NULL => id \in query[1].result

\* C5 witness: a never-notified subscription with a long preference interval was returned
C5_Witness ==
    /\ Answered
    /\ \E id \in Candidates :
          /\ subs[id].last_notified_at = NULL
          /\ Preferred(id) = 3
          /\ id \in query[1].result

\* C6: a preference interval > 0 is the interval the due decision uses,
\* whether it is shorter or longer than the category default.
C6_PreferenceOverrides ==
    Answered =>
        \A id \in Candidates :
            (subs[id].last_notified_at # NULL /\ Preferred(id) > 0) =>
                (id \in query[1].result <=> Elapsed(id) >= Preferred(id))

\* C6 witness: one answer used a preference shorter than the default (due
\* before the default elapsed); the preference longer than the default keeps
\* a row out although the default has elapsed
C6_Witness ==
    /\ Answered
    /\ \E id \in Candidates :
          /\ subs[id].last_notified_at # NULL
          /\ Preferred(id) > 0
          /\ \/ /\ Preferred(id) < Default(id)
                /\ Elapsed(id) >= Preferred(id) /\ Elapsed(id) < Default(id)
                /\ id \in query[1].result
             \/ /\ Preferred(id) > Default(id)
                /\ Elapsed(id) < Preferred(id) /\ Elapsed(id) >= Default(id)
                /\ id \notin query[1].result

\* C7: with an absent, zero or negative preference interval the due
\* decision uses the category's default_interval.
C7_NonPositiveUsesDefault ==
    Answered =>
        \A id \in Candidates :
            (subs[id].last_notified_at # NULL /\ Preferred(id) <= 0) =>
                (id \in query[1].result <=> Elapsed(id) >= Default(id))

\* C8: GetDue never returns an inactive subscription nor one of another category.
C8_OnlyActiveOfCategory ==
    Answered =>
        \A id \in query[1].result :
            /\ id \in DOMAIN subs
            /\ subs[id].is_active
            /\ subs[id].notification_type_id \in GetByCode(query[1].code)

\* C8 witness: the answer left out an inactive never-notified row of the
\* queried category and a due row of another category
C8_Witness ==
    /\ Answered
    /\ \E id \in DOMAIN subs :
          /\ ~subs[id].is_active
          /\ subs[id].notification_type_id \in GetByCode(query[1].code)
          /\ subs[id].last_notified_at = NULL
          /\ id \notin query[1].result
    /\ \E id \in DOMAIN subs :
          /\ subs[id].is_active
          /\ subs[id].notification_type_id \notin GetByCode(query[1].code)
          /\ id \in GetDueForNotification(subs[id].notification_type_id)
          /\ id \notin query[1].result

\* ------------------------------------------------------------------------
\* Dispatch service (NotificationDispatchServiceImpl)
\* ------------------------------------------------------------------------
\* The orders in which a query may return the rows of S
Perms(S) ==
    {f \in [1..Cardinality(S) -> S] :
        \A a, b \in 1..Cardinality(S) : f[a] = f[b] => a = b}

\* Mutant: a code without a generator gets a default message
GetNotificationContent_Default(code, upstreamOK, len) ==
    CASE code \in {"coinbase", "price_alert"} -> IF upstreamOK THEN <<60>> ELSE <<>>
      [] code = "news" -> <<60>>
      [] code \in {"weather", "custom"} -> <<len>>
      [] OTHER -> <<60>>

\* GetNotificationContent: <<>> is an error, <<n>> a content of n characters.
\* upstreamOK: the currency of the preferences is one fetchCoinbasePrice knows;
\* len: the length the location / message setting gives the text.
GetNotificationContent(code, upstreamOK, len) ==
    CASE code \in {"coinbase", "price_alert"} -> IF upstreamOK THEN <<60>> ELSE <<>>
      [] code = "news" -> <<60>>
      [] code \in {"weather", "custom"} -> <<len>>
      [] OTHER -> <<>>

\* LogNotification: the log table after the insert (unchanged when the write
\* fails; the foreign key needs the subscription row)
LogNotification(id, status, writeOK) ==
    IF WithContext(writeOK) /\ id \in DOMAIN subs
    THEN Append(logs, [subscription_id |-> id, status |-> status])
    ELSE logs

\* What a pipeline remembers of its LogNotification call
Logged(c, newLogs) ==
    [c EXCEPT !.logWrite = IF newLogs # logs THEN "ok" ELSE "failed",
              !.logAt = IF newLogs # logs THEN Len(newLogs) ELSE 0]

\* Mutant: a failed log write is returned as the error of the send
SendError_LogEscalated(valid, sendOK, logOK) == ~valid \/ ~sendOK \/ ~logOK

\* Mutant: a failed validation or send is not returned as an error
SendError_FailureSwallowed(valid, sendOK, logOK) == FALSE

\* sendNotificationToSubscription: TRUE when it returns an error
SendError(valid, sendOK, logOK) == ~valid \/ ~sendOK

\* Mutant: the loop stops at the first subscription that failed
LoopContinues_AbortOnError(err, i, n) == ~err /\ i < n

\* The range loop of DispatchNotification: whether another subscription follows
LoopContinues(err, i, n) == i < n

\* Mutant: a cycle with failed subscriptions returns an error
LoopResult_FailOnAny(successCount, n) == IF successCount < n THEN "err" ELSE "nil"

\* The value DispatchNotification returns after the loop
LoopResult(successCount, n) == "nil"

\* Locals of processSubscriptionNotification at its start for row id
NewCur(id) ==
    [sub |-> id,
     before |-> IF id \in DOMAIN subs THEN subs[id].last_notified_at ELSE NULL,
     after |-> NULL,
     generated |-> FALSE, len |-> 0, valid |-> FALSE, delivered |-> FALSE,
     logWrite |-> "none", logAt |-> 0, markWrite |-> "none", err |-> FALSE]

SuccessCount(res) == Cardinality({k \in 1..Len(res) : ~res[k].err})

\* One subscription is finished with outcome c: the loop goes on or returns
EndOfSubscription(d, c, lastAfter) ==
    LET done == [c EXCEPT !.after = lastAfter]
        res == Append(d.res, done)
    IN IF LoopContinues(c.err, d.i, Len(d.due))
       THEN [d EXCEPT !.pc = "generate", !.i = d.i + 1, !.res = res,
                      !.cur = <<>>, !.content = 0]
       ELSE [d EXCEPT !.pc = "done", !.res = res, !.cur = <<>>, !.content = 0,
                      !.ret = LoopResult(SuccessCount(res), Len(d.due))]

LastOf(table, id) == IF id \in DOMAIN table THEN table[id].last_notified_at ELSE NULL

\* DispatchNotification(ctx, code) up to the loop: GetDueSubscriptions and
\* the two early returns
DispatchNotification(p, code, storeOK) ==
    LET d == disp[p]
        found == GetByCode(code)
        dueSet == UNION {GetDueForNotification(t) : t \in found}
    IN /\ d.pc \in {"idle", "done"}
       /\ d.calls < MaxCalls
       /\ \E order \in Perms(dueSet) :
            disp' = [disp EXCEPT ![p] =
                IF ~WithContext(storeOK)
                THEN [d EXCEPT !.pc = "done", !.code = code, !.due = <<>>, !.i = 0,
                               !.ret = "err", !.calls = d.calls + 1,
                               !.cur = <<>>, !.res = <<>>]
                ELSE IF Len(order) = 0
                THEN [d EXCEPT !.pc = "done", !.code = code, !.due = <<>>, !.i = 0,
                               !.ret = "nil", !.calls = d.calls + 1,
                               !.cur = <<>>, !.res = <<>>]
                ELSE [d EXCEPT !.pc = "generate", !.code = code, !.due = order,
                               !.i = 1, !.ret = "none", !.calls = d.calls + 1,
                               !.cur = <<>>, !.res = <<>>]]
       /\ UNCHANGED <<storeVars, logs, sent, rlVars>>

\* processSubscriptionNotification: GetNotificationContent
Generate(p, upstreamOK, len) ==
    LET d == disp[p]
        id == d.due[d.i]
        c == NewCur(id)
        content == GetNotificationContent(d.code, upstreamOK, len)
    IN /\ d.pc = "generate"
       /\ disp' = [disp EXCEPT ![p] =
            IF content = <<>>
            THEN EndOfSubscription(d, [c EXCEPT !.err = TRUE], LastOf(subs, id))
            ELSE [d EXCEPT !.pc = "validate", !.content = content[1],
                           !.cur = [c EXCEPT !.generated = TRUE, !.len = content[1]]]]
       /\ UNCHANGED <<storeVars, logs, sent, rlVars, schedVars>>

\* sendNotificationToSubscription: ValidateMessageString and the failed log
Validate(p, logOK) ==
    LET d == disp[p]
        id == d.due[d.i]
        ok == ValidateMessageString(d.content)
        newLogs == LogNotification(id, "failed", logOK)
    IN /\ d.pc = "validate"
       /\ IF ok
          THEN /\ disp' = [disp EXCEPT ![p] =
                     [d EXCEPT !.pc = "send", !.cur = [d.cur EXCEPT !.valid = TRUE]]]
               /\ UNCHANGED logs
          ELSE /\ logs' = newLogs
               /\ disp' = [disp EXCEPT ![p] =
                     IF SendError(FALSE, FALSE, newLogs # logs)
                     THEN EndOfSubscription(d,
                              [Logged(d.cur, newLogs) EXCEPT !.err = TRUE],
                              LastOf(subs, id))
                     ELSE [d EXCEPT !.pc = "mark", !.cur = Logged(d.cur, newLogs)]]
       /\ UNCHANGED <<storeVars, sent, rlVars, schedVars>>

\* sendNotificationToSubscription: SendMessage and the failed log
Send(p, sendOK, logOK) ==
    LET d == disp[p]
        id == d.due[d.i]
        newLogs == LogNotification(id, "failed", logOK)
    IN /\ d.pc = "send"
       /\ IF sendOK
          THEN /\ sent' = Append(sent, [subscription_id |-> id, len |-> d.content])
               /\ disp' = [disp EXCEPT ![p] =
                     [d EXCEPT !.pc = "logsent", !.cur = [d.cur EXCEPT !.delivered = TRUE]]]
               /\ UNCHANGED logs
          ELSE /\ logs' = newLogs
               /\ disp' = [disp EXCEPT ![p] =
                     IF SendError(TRUE, FALSE, newLogs # logs)
                     THEN EndOfSubscription(d,
                              [Logged(d.cur, newLogs) EXCEPT !.err = TRUE],
                              LastOf(subs, id))
                     ELSE [d EXCEPT !.pc = "mark", !.cur = Logged(d.cur, newLogs)]]
               /\ UNCHANGED sent
       /\ UNCHANGED <<storeVars, rlVars, schedVars>>

\* sendNotificationToSubscription: the sent log and its return value
LogSent(p, logOK) ==
    LET d == disp[p]
        id == d.due[d.i]
        newLogs == LogNotification(id, "sent", logOK)
        c == Logged(d.cur, newLogs)
    IN /\ d.pc = "logsent"
       /\ logs' = newLogs
       /\ disp' = [disp EXCEPT ![p] =
            IF SendError(TRUE, TRUE, newLogs # logs)
            THEN EndOfSubscription(d, [c EXCEPT !.err = TRUE], LastOf(subs, id))
            ELSE [d EXCEPT !.pc = "mark", !.cur = c]]
       /\ UNCHANGED <<storeVars, sent, rlVars, schedVars>>

\* processSubscriptionNotification: MarkNotified and the return
Mark(p, markOK) ==
    LET d == disp[p]
        id == d.due[d.i]
        newSubs == IF WithContext(markOK) THEN UpdateLastNotified(id) ELSE subs
    IN /\ d.pc = "mark"
       /\ subs' = newSubs
       /\ query' = <<>>
       /\ disp' = [disp EXCEPT ![p] =
            EndOfSubscription(d,
                [d.cur EXCEPT !.markWrite = IF WithContext(markOK) THEN "ok" ELSE "failed",
                              !.err = ~WithContext(markOK)],
                LastOf(newSubs, id))]
       /\ UNCHANGED <<now, types, nextID, tasks, logs, sent, rlVars, schedVars>>

Next ==
    \/ Tick
    \/ \E u \in UserIDs, code \in Codes : nextID <= MaxSubs /\ Subscribe(u, code, <<>>)
    \/ \E p \in Dispatchers, code \in Codes, storeOK \in BOOLEAN :
          DispatchNotification(p, code, storeOK) /\ UNCHANGED schedVars
    \/ \E p \in Dispatchers, upstreamOK \in BOOLEAN, len \in MsgLens :
          Generate(p, upstreamOK, len)
    \/ \E p \in Dispatchers, logOK \in BOOLEAN : Validate(p, logOK)
    \/ \E p \in Dispatchers, sendOK \in BOOLEAN, logOK \in BOOLEAN : Send(p, sendOK, logOK)
    \/ \E p \in Dispatchers, logOK \in BOOLEAN : LogSent(p, logOK)
    \/ \E p \in Dispatchers, markOK \in BOOLEAN : Mark(p, markOK)

Spec == Init /\ [][Next]_vars

\* ------------------------------------------------------------------------
\* Further callers: notification type administration and the direct dispatch
\* of a given message to one subscription
\* ------------------------------------------------------------------------
\* NotificationTypeServiceImpl.ActivateType(code)
ActivateType(code) ==
    /\ GetByCode(code) # {}
    /\ types' = [t \in DOMAIN types |->
                    IF t \in GetByCode(code) THEN [types[t] EXCEPT !.is_active = TRUE]
                    ELSE types[t]]
    /\ query' = <<>>
    /\ UNCHANGED <<now, subs, nextID, tasks, dispVars, rlVars, schedVars>>

\* NotificationTypeServiceImpl.DeactivateType(code)
DeactivateType(code) ==
    /\ GetByCode(code) # {}
    /\ types' = [t \in DOMAIN types |->
                    IF t \in GetByCode(code) THEN [types[t] EXCEPT !.is_active = FALSE]
                    ELSE types[t]]
    /\ query' = <<>>
    /\ UNCHANGED <<now, subs, nextID, tasks, dispVars, rlVars, schedVars>>

\* Mutant: a direct dispatch that delivered also marks the row as notified
DispatchToSubscription_Marks(p, id, len, sendOK, logOK) ==
    LET d == disp[p]
        ok == ValidateMessageString(len)
        delivered == ok /\ sendOK
        newLogs == LogNotification(id, IF delivered THEN "sent" ELSE "failed", logOK)
        newSubs == IF delivered THEN UpdateLastNotified(id) ELSE subs
        c == [NewCur(id) EXCEPT !.generated = TRUE, !.len = len,
                                !.valid = ok, !.delivered = delivered]
        out == [Logged(c, newLogs) EXCEPT !.err = SendError(ok, sendOK, newLogs # logs),
                                          !.after = LastOf(newSubs, id)]
    IN /\ d.pc \in {"idle", "done"}
       /\ d.calls < MaxCalls
       /\ id \in DOMAIN subs
       /\ logs' = newLogs
       /\ sent' = IF delivered
                  THEN Append(sent, [subscription_id |-> id, len |-> len])
                  ELSE sent
       /\ subs' = newSubs
       /\ query' = <<>>
       /\ disp' = [disp EXCEPT ![p] =
             [d EXCEPT !.pc = "done", !.code = "", !.due = <<id>>, !.i = 1,
                       !.content = 0, !.ret = IF out.err THEN "err" ELSE "nil",
                       !.calls = d.calls + 1, !.cur = <<>>, !.res = <<out>>]]
       /\ UNCHANGED <<now, types, nextID, tasks, rlVars, schedVars>>

\* DispatchToSubscription(ctx, subscription, message): one call of
\* sendNotificationToSubscription with a message of the given length for a
\* loaded subscription row; MarkNotified is not part of it
DispatchToSubscription(p, id, len, sendOK, logOK) ==
    LET d == disp[p]
        ok == ValidateMessageString(len)
        delivered == ok /\ sendOK
        newLogs == LogNotification(id, IF delivered THEN "sent" ELSE "failed", logOK)
        c == [NewCur(id) EXCEPT !.generated = TRUE, !.len = len,
                                !.valid = ok, !.delivered = delivered]
        out == [Logged(c, newLogs) EXCEPT !.err = SendError(ok, sendOK, newLogs # logs),
                                          !.after = LastOf(subs, id)]
    IN /\ d.pc \in {"idle", "done"}
       /\ d.calls < MaxCalls
       /\ id \in DOMAIN subs
       /\ logs' = newLogs
       /\ sent' = IF delivered
                  THEN Append(sent, [subscription_id |-> id, len |-> len])
                  ELSE sent
       /\ disp' = [disp EXCEPT ![p] =
             [d EXCEPT !.pc = "done", !.code = "", !.due = <<id>>, !.i = 1,
                       !.content = 0, !.ret = IF out.err THEN "err" ELSE "nil",
                       !.calls = d.calls + 1, !.cur = <<>>, !.res = <<out>>]]
       /\ UNCHANGED <<storeVars, rlVars, schedVars>>

NextOps ==
    \/ Next
    \/ \E code \in Codes : ActivateType(code)
    \/ \E code \in Codes : DeactivateType(code)
    \/ \E p \in Dispatchers, id \in SubIDs, len \in DirectLens,
          sendOK \in BOOLEAN, logOK \in BOOLEAN :
            DispatchToSubscription(p, id, len, sendOK, logOK)

SpecOps == Init /\ [][NextOps]_vars

\* ------------------------------------------------------------------------
\* Claims about one DispatchNotification cycle (checked under Spec)
\* ------------------------------------------------------------------------
\* The finished pipelines of the current or last cycle of each dispatcher
Outcomes == UNION {{disp[p].res[k] : k \in 1..Len(disp[p].res)} : p \in DOMAIN disp}
Advanced(r) == r.after # r.before
LogEntryOf(r, status) ==
    /\ r.logAt \in 1..Len(logs)
    /\ logs[r.logAt] = [subscription_id |-> r.sub, status |-> status]

\* C1 as stated: last_notified_at is advanced if and only if the message was
\* delivered and its log entry was written; a validation failure leaves it
\* untouched.
C1_AdvancedIffDeliveredAndLogged ==
    \A r \in Outcomes :
        /\ Advanced(r) <=> (r.delivered /\ r.logWrite = "ok")
        /\ (r.generated /\ ~r.valid) => ~Advanced(r)

\* C1 amended: last_notified_at is advanced only if the message was
\* delivered, and once delivered it is advanced unless the MarkNotified update
\* itself fails, whether or not the log entry could be written; a validation
\* failure leaves it untouched.
C1_AdvancedIffDelivered ==
    \A r \in Outcomes :
        /\ Advanced(r) => r.delivered
        /\ (r.delivered /\ r.markWrite # "failed") => Advanced(r)
        /\ (r.generated /\ ~r.valid) => ~Advanced(r)

\* C1 witness: one cycle delivered a message whose log write failed and still
\* advanced the timestamp, and left a row with an invalid message untouched
C1_Witness ==
    \E p \in Dispatchers :
        /\ disp[p].pc = "done"
        /\ \E r \in Outcomes :
              r.delivered /\ r.logWrite = "failed" /\ Advanced(r)
              /\ subs[r.sub].last_notified_at = r.after
        /\ \E r \in Outcomes :
              r.generated /\ ~r.valid /\ ~Advanced(r) /\ LogEntryOf(r, "failed")

\* C2: a failure in one due subscription's pipeline never keeps the remaining
\* due subscriptions of the call from being processed and logged: the cycle
\* ends only after every fetched row went through its pipeline, and every
\* pipeline that had a message reached its log write.
C2_FailuresIsolated ==
    \A p \in Dispatchers :
        /\ disp[p].pc \in {"generate", "validate", "send", "logsent", "mark"} =>
              disp[p].i = Len(disp[p].res) + 1
        /\ disp[p].pc = "done" =>
              /\ Len(disp[p].res) = Len(disp[p].due)
              /\ \A k \in 1..Len(disp[p].due) :
                    /\ disp[p].res[k].sub = disp[p].due[k]
                    /\ disp[p].res[k].generated => disp[p].res[k].logWrite # "none"

\* C2 witness: the first pipeline of a finished cycle failed and the second
\* one delivered and logged its message
C2_Witness ==
    \E p \in Dispatchers :
        /\ disp[p].pc = "done"
        /\ Len(disp[p].res) = 2
        /\ disp[p].res[1].err
        /\ disp[p].res[2].delivered
        /\ LogEntryOf(disp[p].res[2], "sent")

\* C3: DispatchNotification returns no error because subscriptions failed
\* (also when all fail); a pipeline in which nothing failed leaves a 'sent' log
\* entry and an advanced timestamp, one whose delivery errored leaves a
\* 'failed' entry and the timestamp unchanged.
C3_NoErrorFromSubscriptionFailures ==
    \A p \in Dispatchers :
        disp[p].pc = "done" /\ Len(disp[p].due) > 0 =>
            /\ disp[p].ret = "nil"
            /\ \A k \in 1..Len(disp[p].res) :
                 LET r == disp[p].res[k] IN
                 /\ (r.delivered /\ r.logWrite # "failed" /\ r.markWrite # "failed") =>
                        LogEntryOf(r, "sent") /\ Advanced(r)
                 /\ (r.valid /\ ~r.delivered /\ r.logWrite # "failed") =>
                        LogEntryOf(r, "failed") /\ ~Advanced(r)

\* C3 witness: of two due subscriptions the first went through and the
\* second's delivery errored; the call returned nil
C3_Witness ==
    \E p \in Dispatchers :
        /\ disp[p].pc = "done"
        /\ disp[p].ret = "nil"
        /\ Len(disp[p].res) = 2
        /\ LogEntryOf(disp[p].res[1], "sent") /\ Advanced(disp[p].res[1])
        /\ subs[disp[p].res[1].sub].last_notified_at = disp[p].res[1].after
        /\ disp[p].res[2].valid /\ ~disp[p].res[2].delivered
        /\ LogEntryOf(disp[p].res[2], "failed") /\ ~Advanced(disp[p].res[2])
        /\ subs[disp[p].res[2].sub].last_notified_at = disp[p].res[2].before

\* The step is a DispatchNotification call of dispatcher p
Dispatching(p) ==
    /\ disp'[p].calls = disp[p].calls + 1
    /\ disp'[p].code \in Codes

\* C12: DispatchNotification with a code no notification type has returns an
\* error to its caller and dispatches nothing (no content, no send, no log).
C12_UnknownCodeIsError ==
    [][\A p \in DOMAIN disp :
          (Dispatching(p) /\ GetByCode(disp'[p].code) = {}) =>
              /\ disp'[p].ret = "err"
              /\ disp'[p].pc = "done" /\ disp'[p].due = <<>>
              /\ logs' = logs /\ sent' = sent]_vars

\* C13: DispatchNotification for a category whose is_active flag is false
\* returns an error to its caller and delivers to none of the category's
\* subscriptions, also when some are active and due.
C13_InactiveCategoryIsError ==
    [][\A p \in DOMAIN disp :
          (/\ Dispatching(p)
           /\ \E t \in GetByCode(disp'[p].code) : ~types[t].is_active) =>
              /\ disp'[p].ret = "err"
              /\ disp'[p].pc = "done" /\ disp'[p].due = <<>>]_vars

\* A finished pipeline whose message failed validation or delivery
Failed(r) == r.generated /\ ~r.delivered

\* C15: when validation or the delivery channel fails for a due
\* subscription, the attempt gets a 'failed' log write and last_notified_at
\* is not advanced, and the next DispatchNotification cycle of the category
\* fetches the subscription again.
C15_FailedRetriedNextCycle ==
    /\ [](\A r \in Outcomes :
            Failed(r) =>
                /\ r.err /\ ~Advanced(r) /\ r.markWrite = "none"
                /\ r.logWrite # "none"
                /\ r.logWrite = "ok" => LogEntryOf(r, "failed"))
    /\ [][\A p \in DOMAIN disp :
            (Dispatching(p) /\ disp'[p].code = disp[p].code /\ disp'[p].ret # "err") =>
                \A k \in 1..Len(disp[p].res) :
                    Failed(disp[p].res[k]) =>
                        \E j \in 1..Len(disp'[p].due) :
                            disp'[p].due[j] = disp[p].res[k].sub]_vars

\* C15 witness: a subscription whose delivery failed in the first cycle was
\* fetched again by the second cycle and delivered then
C15_Witness ==
    \E p \in DOMAIN disp :
        /\ disp[p].calls = 2
        /\ disp[p].pc = "done"
        /\ \E r \in Outcomes :
              /\ r.delivered /\ LogEntryOf(r, "sent") /\ Advanced(r)
              /\ r.before = NULL
              /\ logs[1] = [subscription_id |-> r.sub, status |-> "failed"]

\* C16: a failed write of the notification log entry is never escalated:
\* when the channel accepted the message and the log write fails, the send
\* is reported as successful, so the pipeline goes on to MarkNotified and
\* returns no error unless MarkNotified itself fails.
C16_LogFailureNotEscalated ==
    \A r \in Outcomes :
        (r.delivered /\ r.logWrite = "failed") =>
            /\ r.markWrite # "none"
            /\ r.markWrite = "ok" => ~r.err

\* C16 witness: a delivered message whose log write failed finished without
\* an error and is not in the log
C16_Witness ==
    \E r \in Outcomes :
        /\ r.delivered /\ r.logWrite = "failed" /\ r.markWrite = "ok" /\ ~r.err
        /\ \A k \in 1..Len(logs) : logs[k].subscription_id # r.sub

\* A finished pipeline whose message is empty or longer than 4096 characters
Invalid(r) == r.generated /\ (r.len = 0 \/ r.len > MAX_MESSAGE_LENGTH)

\* C14: a message that is empty or longer than 4096 characters gets a
\* 'failed' log write (the entry is in the log when the log store took the
\* write) and is never handed to the delivery channel: the pipeline reaches
\* the send step only with a valid message, and nothing invalid is delivered.
C14_InvalidLoggedNeverSent ==
    /\ \A r \in Outcomes :
          Invalid(r) =>
              /\ ~r.valid /\ ~r.delivered /\ r.err
              /\ r.logWrite # "none"
              /\ r.logWrite = "ok" => LogEntryOf(r, "failed")
    /\ \A p \in DOMAIN disp :
          disp[p].pc \in {"send", "logsent", "mark"} =>
              disp[p].content # 0 /\ disp[p].content <= MAX_MESSAGE_LENGTH
    /\ \A k \in 1..Len(sent) : sent[k].len # 0 /\ sent[k].len <= MAX_MESSAGE_LENGTH

\* C14 witness: an empty message was refused and logged as failed, after a
\* message had been delivered earlier; nothing but that delivery reached the
\* channel
C14_Witness ==
    /\ \E r \in Outcomes : r.generated /\ r.len = 0 /\ LogEntryOf(r, "failed")
    /\ Len(sent) = 1
    /\ Len(logs) = 2

\* ------------------------------------------------------------------------
\* Rate limiter (model.RateLimiter)
\* ------------------------------------------------------------------------
\* Mutant: the duration is truncated to whole seconds
RoundSecond_Truncate(d) == (d \div 2) * 2

\* time.Duration.Round(time.Second) of a non-negative duration: to the
\* nearest second, halves away from zero
RoundSecond(d) == ((d + 1) \div 2) * 2

\* Mutant: a message denied as too fast is counted in the window
Decide_DenialCounts(user, t) ==
    IF t - user.LastMessage < MIN_MESSAGE_INTERVAL
    THEN [allowed |-> FALSE, reason |-> "too_fast", remaining |-> 0,
          user |-> [user EXCEPT !.MessageCount = user.MessageCount + 1]]
    ELSE LET u1 == IF t - user.WindowStart > RATE_LIMIT_WINDOW
                   THEN [user EXCEPT !.MessageCount = 0, !.WindowStart = t]
                   ELSE user
         IN IF u1.MessageCount >= RATE_LIMIT_MESSAGES
            THEN [allowed |-> FALSE, reason |-> "rate_limit",
                  remaining |-> RoundSecond(RATE_LIMIT_WINDOW - (t - u1.WindowStart)),
                  user |-> u1]
            ELSE [allowed |-> TRUE, reason |-> "", remaining |-> 0,
                  user |-> [u1 EXCEPT !.LastMessage = t,
                                      !.MessageCount = u1.MessageCount + 1]]

\* Mutant: the quota test lets one message more through
Decide_OffByOne(user, t) ==
    IF t - user.LastMessage < MIN_MESSAGE_INTERVAL
    THEN [allowed |-> FALSE, reason |-> "too_fast", remaining |-> 0, user |-> user]
    ELSE LET u1 == IF t - user.WindowStart > RATE_LIMIT_WINDOW
                   THEN [user EXCEPT !.MessageCount = 0, !.WindowStart = t]
                   ELSE user
         IN IF u1.MessageCount > RATE_LIMIT_MESSAGES
            THEN [allowed |-> FALSE, reason |-> "rate_limit",
                  remaining |-> RoundSecond(RATE_LIMIT_WINDOW - (t - u1.WindowStart)),
                  user |-> u1]
            ELSE [allowed |-> TRUE, reason |-> "", remaining |-> 0,
                  user |-> [u1 EXCEPT !.LastMessage = t,
                                      !.MessageCount = u1.MessageCount + 1]]

\* Mutant: window reset and quota test come before the minimum-interval test
Decide_IntervalLast(user, t) ==
    LET u1 == IF t - user.WindowStart > RATE_LIMIT_WINDOW
              THEN [user EXCEPT !.MessageCount = 0, !.WindowStart = t]
              ELSE user
    IN IF u1.MessageCount >= RATE_LIMIT_MESSAGES
       THEN [allowed |-> FALSE, reason |-> "rate_limit",
             remaining |-> RoundSecond(RATE_LIMIT_WINDOW - (t - u1.WindowStart)),
             user |-> u1]
       ELSE IF t - user.LastMessage < MIN_MESSAGE_INTERVAL
       THEN [allowed |-> FALSE, reason |-> "too_fast", remaining |-> 0, user |-> u1]
       ELSE [allowed |-> TRUE, reason |-> "", remaining |-> 0,
             user |-> [u1 EXCEPT !.LastMessage = t,
                                 !.MessageCount = u1.MessageCount + 1]]

\* Mutant: the window is reset already when exactly 60 seconds have passed
Decide_ResetAtSixty(user, t) ==
    IF t - user.LastMessage < MIN_MESSAGE_INTERVAL
    THEN [allowed |-> FALSE, reason |-> "too_fast", remaining |-> 0, user |-> user]
    ELSE LET u1 == IF t - user.WindowStart >= RATE_LIMIT_WINDOW
                   THEN [user EXCEPT !.MessageCount = 0, !.WindowStart = t]
                   ELSE user
         IN IF u1.MessageCount >= RATE_LIMIT_MESSAGES
            THEN [allowed |-> FALSE, reason |-> "rate_limit",
                  remaining |-> RoundSecond(RATE_LIMIT_WINDOW - (t - u1.WindowStart)),
                  user |-> u1]
            ELSE [allowed |-> TRUE, reason |-> "", remaining |-> 0,
                  user |-> [u1 EXCEPT !.LastMessage = t,
                                      !.MessageCount = u1.MessageCount + 1]]

\* IsAllowed for a user that has a record, at time t: the answer and the
\* record as the call leaves it
Decide(user, t) ==
    IF t - user.LastMessage < MIN_MESSAGE_INTERVAL
    THEN [allowed |-> FALSE, reason |-> "too_fast", remaining |-> 0, user |-> user]
    ELSE LET u1 == IF t - user.WindowStart > RATE_LIMIT_WINDOW
                   THEN [user EXCEPT !.MessageCount = 0, !.WindowStart = t]
                   ELSE user
         IN IF u1.MessageCount >= RATE_LIMIT_MESSAGES
            THEN [allowed |-> FALSE, reason |-> "rate_limit",
                  remaining |-> RoundSecond(RATE_LIMIT_WINDOW - (t - u1.WindowStart)),
                  user |-> u1]
            ELSE [allowed |-> TRUE, reason |-> "", remaining |-> 0,
                  user |-> [u1 EXCEPT !.LastMessage = t,
                                      !.MessageCount = u1.MessageCount + 1]]

\* The answer for a user without a record, and the record created
FirstMessage(t) ==
    [allowed |-> TRUE, reason |-> "", remaining |-> 0,
     user |-> [LastMessage |-> t, MessageCount |-> 1, WindowStart |-> t]]

\* The observer counts an admitted message that falls into its window
Observe(allowed, t) ==
    IF /\ allowed
       /\ observed.open
       /\ t - observed.start <= RATE_LIMIT_WINDOW
    THEN [observed EXCEPT !.admits = observed.admits + 1]
    ELSE observed

\* Mutant: all users share the record of one key
IsAllowedAt_OneRecord(userID, t) ==
    LET key == CHOOSE u \in UserIDs : \A o \in UserIDs : u <= o
        d == IF key \in DOMAIN limiter THEN Decide(limiter[key], t)
             ELSE FirstMessage(t)
    IN /\ clock' = t
       /\ limiter' = IF key \in DOMAIN limiter
                     THEN [limiter EXCEPT ![key] = d.user]
                     ELSE limiter @@ (key :> d.user)
       /\ reply' = <<[user |-> userID, allowed |-> d.allowed, reason |-> d.reason,
                      remaining |-> d.remaining, at |-> t]>>
       /\ observed' = Observe(d.allowed, t)
       /\ UNCHANGED <<storeVars, dispVars, schedVars, lockVars>>

\* RateLimiter.IsAllowed(userID) with time.Now() = t, under rl.mutex
IsAllowedAt(userID, t) ==
    LET d == IF userID \in DOMAIN limiter THEN Decide(limiter[userID], t)
             ELSE FirstMessage(t)
    IN /\ clock' = t
       /\ limiter' = IF userID \in DOMAIN limiter
                     THEN [limiter EXCEPT ![userID] = d.user]
                     ELSE limiter @@ (userID :> d.user)
       /\ reply' = <<[user |-> userID, allowed |-> d.allowed, reason |-> d.reason,
                      remaining |-> d.remaining, at |-> t]>>
       /\ observed' = Observe(d.allowed, t)
       /\ UNCHANGED <<storeVars, dispVars, schedVars, lockVars>>

\* IsAllowed called gap half seconds after the previous call
IsAllowed(userID, gap) ==
    /\ clock + gap <= MaxClock
    /\ IsAllowedAt(userID, clock + gap)

\* An observer starts watching the 60 seconds that begin with the message
\* just admitted; aligned: they are the limiter's own window of that user
StartWindow ==
    /\ ~observed.open
    /\ reply # <<>>
    /\ reply[1].allowed
    /\ observed' = [open |-> TRUE, start |-> reply[1].at, admits |-> 1,
                     aligned |-> limiter[reply[1].user].WindowStart = reply[1].at]
    /\ UNCHANGED <<storeVars, dispVars, schedVars, clock, limiter, reply, history, lockVars>>

NextRL ==
    \/ \E userID \in ChatUsers, gap \in Gaps : IsAllowed(userID, gap) /\ UNCHANGED history
    \/ StartWindow

SpecRL == Init /\ [][NextRL]_vars

\* ------------------------------------------------------------------------
\* Claims about the rate limiter (checked under SpecRL)
\* ------------------------------------------------------------------------
\* The step is an IsAllowed call of a user that already had a record
Called(u) ==
    /\ clock' # clock
    /\ u \in DOMAIN limiter
    /\ reply'[1].user = u

\* C9 as stated: any rolling 60-second window holds at most 10 admitted
\* requests of a user (the 11th within it is denied).
C9_TenPerRollingWindow == observed.admits <= RATE_LIMIT_MESSAGES

\* C9 amended: within the limiter's own window of a user, the 60 seconds that
\* begin at window_start, exactly 10 requests spaced at least 1 second apart
\* are admitted and every further one is denied as over the quota; the stored
\* count is the number of requests admitted in that window.
C9_TenPerLimiterWindow ==
    /\ [](observed.aligned =>
            /\ observed.admits <= RATE_LIMIT_MESSAGES
            /\ \A u \in DOMAIN limiter :
                  limiter[u].WindowStart = observed.start =>
                      limiter[u].MessageCount = observed.admits)
    /\ [][\A u \in ChatUsers :
            (/\ Called(u)
             /\ clock' - limiter[u].LastMessage >= MIN_MESSAGE_INTERVAL
             /\ clock' - limiter[u].WindowStart <= RATE_LIMIT_WINDOW) =>
                /\ reply'[1].allowed <=> limiter[u].MessageCount < RATE_LIMIT_MESSAGES
                /\ ~reply'[1].allowed => reply'[1].reason = "rate_limit"]_vars

\* C9 witness: ten requests were admitted in the limiter's window and the
\* eleventh, still inside it, was denied as over the quota
C9_Witness ==
    /\ observed.aligned
    /\ observed.admits = RATE_LIMIT_MESSAGES
    /\ reply # <<>>
    /\ ~reply[1].allowed
    /\ reply[1].reason = "rate_limit"
    /\ reply[1].at - observed.start <= RATE_LIMIT_WINDOW
    /\ reply[1].at - limiter[reply[1].user].LastMessage >= MIN_MESSAGE_INTERVAL

\* C10: a request of a user with a record that arrives less than 1 second
\* after the user's last admitted message is denied as too fast, whatever the
\* window count and even when the 60-second window has expired.
C10_TooFastDenied ==
    [][\A u \in ChatUsers :
          (Called(u) /\ clock' - limiter[u].LastMessage < MIN_MESSAGE_INTERVAL) =>
              ~reply'[1].allowed /\ reply'[1].reason = "too_fast"]_vars

\* C10 witness: a too-fast denial after the window had expired
C10_Witness ==
    /\ reply # <<>>
    /\ ~reply[1].allowed
    /\ reply[1].reason = "too_fast"
    /\ reply[1].at - limiter[reply[1].user].LastMessage < MIN_MESSAGE_INTERVAL
    /\ reply[1].at - limiter[reply[1].user].WindowStart > RATE_LIMIT_WINDOW

\* ------------------------------------------------------------------------
\* A scripted message sequence of one user without a record: a first
\* message, a second one half a second later, a third one a second after
\* that, and further ones at least a second apart, all inside the 60 seconds
\* that begin with the first
\* ------------------------------------------------------------------------
\* The half seconds that may pass before the next message of the sequence
ScenarioGaps ==
    CASE Len(history) = 0 -> Gaps
      [] Len(history) = 1 -> {1}
      [] Len(history) = 2 -> {2}
      [] OTHER -> {g \in Gaps : g >= MIN_MESSAGE_INTERVAL}

\* The next message of the sequence goes through IsAllowed; its answer and
\* the record the call leaves are noted
Request(userID) ==
    /\ Len(history) < MaxRequests
    /\ \E gap \in ScenarioGaps :
          /\ Len(history) > 0 => clock + gap - history[1].at <= RATE_LIMIT_WINDOW
          /\ IsAllowed(userID, gap)
          /\ history' = Append(history,
                [at |-> clock', allowed |-> reply'[1].allowed,
                 reason |-> reply'[1].reason, remaining |-> reply'[1].remaining,
                 user |-> limiter'[userID]])

NextScenario == \E userID \in ChatUsers : Request(userID)

SpecScenario == Init /\ [][NextScenario]_vars

\* C11: of the sequence t=0, t=0.5s, t=1.5s and further requests at least 1 s
\* apart inside the same 60-second window, the first is admitted and creates
\* the record with count 1, the second is denied as too fast and is not
\* counted, the third is admitted, the first 10 requests spaced at least 1 s
\* apart are admitted and the 11th is denied with the remaining window time.
C11_Scenario ==
    \A k \in 1..Len(history) :
        LET h == history[k] IN
        /\ k = 1 =>
              /\ h.allowed
              /\ h.user = [LastMessage |-> h.at, MessageCount |-> 1, WindowStart |-> h.at]
        /\ k = 2 =>
              /\ ~h.allowed /\ h.reason = "too_fast"
              /\ h.user = history[1].user
        /\ (k >= 3 /\ k <= RATE_LIMIT_MESSAGES + 1) =>
              /\ h.allowed
              /\ h.user.MessageCount = k - 1
        /\ k >= RATE_LIMIT_MESSAGES + 2 =>
              /\ ~h.allowed /\ h.reason = "rate_limit"
              /\ h.remaining = RoundSecond(RATE_LIMIT_WINDOW - (h.at - history[1].at))
              /\ h.user.MessageCount = RATE_LIMIT_MESSAGES

\* C11 witness: the whole sequence was played; its 12th request, the 11th
\* of those spaced at least 1 s apart, was denied inside the window
C11_Witness ==
    /\ Len(history) >= RATE_LIMIT_MESSAGES + 2
    /\ history[1].allowed
    /\ history[2].at - history[1].at = 1
    /\ history[2].reason = "too_fast"
    /\ history[3].at - history[1].at = 3
    /\ history[3].allowed
    /\ ~history[RATE_LIMIT_MESSAGES + 2].allowed
    /\ history[RATE_LIMIT_MESSAGES + 2].at - history[1].at <= RATE_LIMIT_WINDOW
    /\ history[RATE_LIMIT_MESSAGES + 2].remaining > 0

\* ------------------------------------------------------------------------
\* Scheduler (NotificationScheduler): Start launches one
\* runNotificationSchedule goroutine per category of the schedule, each with
\* its own ticker, all under the one context Start was given, and waits for
\* that context. The goroutine of category c runs its DispatchNotification
\* calls as dispatcher c. The store, the log store, the content sources and
\* the delivery channel work here, so that a failed step of a pipeline can
\* only come from the context.
\* ------------------------------------------------------------------------
\* State when Start has launched the goroutines and waits on ctx.Done():
\* a subscription to each category exists and was never notified
InitSched ==
    /\ now = 0
    /\ types = (1 :> [code |-> "coinbase", default_interval_minutes |-> 1, is_active |-> TRUE]) @@
               (3 :> [code |-> "weather", default_interval_minutes |-> 4, is_active |-> TRUE])
    /\ subs = [id \in 1..2 |->
                 [user_id |-> 1,
                  notification_type_id |-> IF id = 1 THEN 1 ELSE 3,
                  is_active |-> TRUE,
                  preferences |-> Value(types[IF id = 1 THEN 1 ELSE 3].default_interval_minutes),
                  last_notified_at |-> NULL]]
    /\ nextID = 3
    /\ query = <<>>
    /\ tasks = [k \in SubTasks |-> IdleTask]
    /\ logs = <<>>
    /\ sent = <<>>
    /\ disp = [c \in Loops |-> IdleDispatcher]
    /\ clock = 0
    /\ limiter = <<>>
    /\ reply = <<>>
    /\ observed = [open |-> FALSE, start |-> 0, admits |-> 0, aligned |-> FALSE]
    /\ history = <<>>
    /\ mutex = "free"
    /\ callers = [k \in RLTasks |-> IdleCaller]
    /\ ctxDone = FALSE
    /\ loops = [c \in Loops |-> [stopped |-> FALSE, tick |-> FALSE]]
    /\ starter = "waiting"

\* The goroutine of category c is at the select statement of its loop
AtSelect(c) == ~loops[c].stopped /\ disp[c].pc \in {"idle", "done"}

\* cancel() of the context: the shutdown signal
Cancel ==
    /\ ~ctxDone
    /\ ctxDone' = TRUE
    /\ UNCHANGED <<storeVars, dispVars, rlVars, loops, starter>>

\* The ticker of category c fires: its channel holds one tick, a tick that
\* finds the channel full is dropped
TickerFire(c) ==
    /\ ~loops[c].stopped
    /\ ~loops[c].tick
    /\ loops' = [loops EXCEPT ![c].tick = TRUE]
    /\ UNCHANGED <<storeVars, dispVars, rlVars, ctxDone, starter>>

\* Mutant: the goroutines read the category from the range variable of Start,
\* which has moved on
LoopDispatch_RangeVariable(c, storeOK) ==
    /\ ~loops[c].stopped
    /\ loops[c].tick
    /\ \E x \in Loops : DispatchNotification(c, x, storeOK)
    /\ loops' = [loops EXCEPT ![c].tick = FALSE]
    /\ UNCHANGED <<ctxDone, starter>>

\* Mutant: the loop dispatches without waiting for a tick
LoopDispatch_Immediately(c, storeOK) ==
    /\ ~loops[c].stopped
    /\ DispatchNotification(c, c, storeOK)
    /\ loops' = [loops EXCEPT ![c].tick = FALSE]
    /\ UNCHANGED <<ctxDone, starter>>

\* Mutant: the goroutines share one lock around their dispatch
LoopDispatch_OneAtATime(c, storeOK) ==
    /\ ~loops[c].stopped
    /\ loops[c].tick
    /\ \A o \in Loops : disp[o].pc \in {"idle", "done"}
    /\ DispatchNotification(c, c, storeOK)
    /\ loops' = [loops EXCEPT ![c].tick = FALSE]
    /\ UNCHANGED <<ctxDone, starter>>

\* select takes case <-ticker.C: the tick is received and
\* DispatchNotification(ctx, c) is called in the goroutine
LoopDispatch(c, storeOK) ==
    /\ ~loops[c].stopped
    /\ loops[c].tick
    /\ DispatchNotification(c, c, storeOK)
    /\ loops' = [loops EXCEPT ![c].tick = FALSE]
    /\ UNCHANGED <<ctxDone, starter>>

\* Mutant: the loop has no case for ctx.Done()
LoopStop_NoDoneCase(c) ==
    /\ FALSE
    /\ UNCHANGED vars

\* select takes case <-ctx.Done(): the goroutine returns, its deferred
\* ticker.Stop() runs
LoopStop(c) ==
    /\ AtSelect(c)
    /\ ctxDone
    /\ loops' = [loops EXCEPT ![c].stopped = TRUE]
    /\ UNCHANGED <<storeVars, dispVars, rlVars, ctxDone, starter>>

\* Start receives from ctx.Done() and returns
StartReturn ==
    /\ starter = "waiting"
    /\ ctxDone
    /\ starter' = "returned"
    /\ UNCHANGED <<storeVars, dispVars, rlVars, ctxDone, loops>>

\* The steps of the DispatchNotification call running in goroutine c
Pipeline(c) ==
    \/ \E len \in {l \in MsgLens : ValidateMessageString(l)} : Generate(c, TRUE, len)
    \/ Validate(c, TRUE)
    \/ Send(c, TRUE, TRUE)
    \/ LogSent(c, TRUE)
    \/ Mark(c, TRUE)

NextSched ==
    \/ Tick
    \/ Cancel
    \/ \E c \in Loops : TickerFire(c)
    \/ \E c \in Loops : LoopDispatch(c, TRUE)
    \/ \E c \in Loops : Pipeline(c)
    \/ \E c \in Loops : LoopStop(c)
    \/ StartReturn

SpecSched == InitSched /\ [][NextSched]_vars

\* select chooses at random among its ready cases, so a goroutine that is at
\* its select again and again with ctx.Done() ready takes that case; a
\* dispatch in flight runs on, and Start is not kept from running
SpecSchedFair ==
    /\ SpecSched
    /\ \A c \in Loops : SF_vars(LoopStop(c)) /\ WF_vars(Pipeline(c))
    /\ WF_vars(StartReturn)

\* ------------------------------------------------------------------------
\* Claims about the scheduler (checked under SpecSched and SpecSchedFair)
\* ------------------------------------------------------------------------
\* C17: once the context is cancelled no loop starts a dispatch cycle: a tick
\* that is pending or fires at or after the cancellation never leads to a
\* DispatchNotification call.
C17_NoDispatchAfterCancel ==
    [][\A c \in DOMAIN disp : Dispatching(c) => ~ctxDone]_vars

\* C18: a cycle in flight when the context is cancelled finishes as it would
\* without the cancellation: every subscription it fetched is sent, logged as
\* 'sent' and has its last_notified_at advanced.
C18_InFlightFinishes ==
    \A r \in Outcomes :
        /\ r.delivered
        /\ LogEntryOf(r, "sent")
        /\ r.markWrite = "ok" /\ Advanced(r)
        /\ ~r.err

\* C19: after the context is cancelled every loop reaches its return and
\* Start returns, given that a dispatch in flight returns.
C19_AllStopAfterCancel ==
    ctxDone ~> ((\A c \in Loops : loops[c].stopped) /\ starter = "returned")

\* C19 witness: all loops and Start have returned, one of them after the
\* cycle that was in flight at the cancellation had run to its end
C19_Witness ==
    /\ ctxDone
    /\ \A c \in Loops : loops[c].stopped
    /\ starter = "returned"
    /\ \E c \in Loops :
          /\ disp[c].pc = "done" /\ disp[c].ret = "nil"
          /\ \E k \in 1..Len(disp[c].res) : disp[c].res[k].markWrite = "failed"

\* C20: whatever the other categories' dispatches do (slow, blocked forever,
\* failing), a loop whose own ticker, select and dispatch keep running goes
\* on ticking and dispatching until the context is cancelled.
C20_LoopsIndependent ==
    \A c \in Loops :
        (/\ WF_vars(TickerFire(c))
         /\ WF_vars(LoopDispatch(c, TRUE))
         /\ WF_vars(Pipeline(c)))
            => <>(ctxDone \/ (disp[c].calls = MaxCalls /\ disp[c].pc = "done"))

\* C20 witness: one loop has run all its cycles while the dispatch of another
\* is still at the send of its first subscription, its next tick already waiting
C20_Witness ==
    \E c, o \in Loops :
        /\ c # o
        /\ ~ctxDone
        /\ disp[c].calls = MaxCalls /\ disp[c].pc = "done"
        /\ disp[o].calls = 1 /\ disp[o].pc = "send" /\ disp[o].res = <<>>
        /\ loops[o].tick

\* ------------------------------------------------------------------------
\* Claims about ticks that fire during a dispatch (checked under SpecSched)
\* ------------------------------------------------------------------------
\* The step is the return of the DispatchNotification call of goroutine c
\* after it ran the pipeline of at least one subscription
Returns(c) == disp[c].pc \notin {"idle", "done"} /\ disp'[c].pc = "done"

\* C21: a tick that fires while the dispatch of its category is running is not
\* kept: when the dispatch returns no tick is waiting, so the loop waits for a
\* fresh tick before its next dispatch cycle.
C21_MissedTickNotKept ==
    [][\A c \in Loops : Returns(c) => ~loops'[c].tick]_vars

\* ------------------------------------------------------------------------
\* Subscribe and Unsubscribe calls running concurrently: Subscribe reads the
\* row of (user, type) in one statement and writes in a later one, so the
\* statements of other calls can run in between
\* ------------------------------------------------------------------------
\* Mutant: the table has no UNIQUE(user_id, notification_type_id)
Create_NoUnique(row) == subs @@ (nextID :> row)

\* GormSubscriptionRepository.Create: INSERT of a new row under the next id
\* of the sequence; UNIQUE(user_id, notification_type_id) refuses a second
\* row of the pair (the table is returned unchanged)
Create(row) ==
    IF GetByUserAndType(row.user_id, row.notification_type_id) = {}
    THEN subs @@ (nextID :> row)
    ELSE subs

\* gorm Save of a loaded row: UPDATE of all columns by primary key; when the
\* row is gone, the gorm release decides whether it is inserted again
\* (upsert), which the UNIQUE constraint may refuse
Save(id, row, upsert) ==
    IF id \in DOMAIN subs THEN [subs EXCEPT ![id] = row]
    ELSE IF upsert /\ GetByUserAndType(row.user_id, row.notification_type_id) = {}
    THEN subs @@ (id :> row)
    ELSE subs

\* Subscribe, first part: GetByCode, the is_active test of the type and
\* GetByUserAndType; the call keeps the row it found
SubscribeLookup(k, u, code) ==
    /\ tasks[k].pc \in {"idle", "done"}
    /\ nextID <= Cardinality(SubIDs)
    /\ \E t \in GetByCode(code) :
          /\ types[t].is_active
          /\ \/ /\ GetByUserAndType(u, t) = {}
                /\ tasks' = [tasks EXCEPT ![k] =
                      [pc |-> "found", user |-> u, type |-> t, existing |-> <<>>,
                       ret |-> "none"]]
             \/ \E id \in GetByUserAndType(u, t) :
                   tasks' = [tasks EXCEPT ![k] =
                      [pc |-> "found", user |-> u, type |-> t,
                       existing |-> <<[id |-> id, row |-> subs[id]]>>, ret |-> "none"]]
    /\ UNCHANGED <<now, types, subs, nextID, query, dispVars, rlVars, schedVars>>

\* Subscribe, second part: Update of the existing row made active, or Create
\* of a new one (nil preferences: the default interval of the type)
SubscribeWrite(k, upsert) ==
    LET c == tasks[k]
        new == [user_id |-> c.user,
                notification_type_id |-> c.type,
                is_active |-> TRUE,
                preferences |-> Value(types[c.type].default_interval_minutes),
                last_notified_at |-> NULL]
        newSubs == IF c.existing # <<>>
                   THEN Save(c.existing[1].id,
                             [c.existing[1].row EXCEPT !.is_active = TRUE], upsert)
                   ELSE Create(new)
    IN /\ c.pc = "found"
       /\ subs' = newSubs
       /\ nextID' = IF c.existing = <<>> THEN nextID + 1 ELSE nextID
       /\ tasks' = [tasks EXCEPT ![k] =
             [c EXCEPT !.pc = "done",
                       !.ret = IF c.existing = <<>> /\ newSubs = subs THEN "err" ELSE "nil"]]
       /\ query' = <<>>
       /\ UNCHANGED <<now, types, dispVars, rlVars, schedVars>>

\* Mutant: the row is kept and only made inactive
Unsubscribe_Deactivate(u, code) ==
    /\ \E t \in GetByCode(code) :
          subs' = [id \in DOMAIN subs |->
                     IF id \in GetByUserAndType(u, t)
                     THEN [subs[id] EXCEPT !.is_active = FALSE]
                     ELSE subs[id]]
    /\ query' = <<>>
    /\ UNCHANGED <<now, types, nextID, tasks, dispVars, rlVars, schedVars>>

\* SubscriptionServiceImpl.Unsubscribe(user, code): DeleteByUserAndType
Unsubscribe(u, code) ==
    /\ \E t \in GetByCode(code) :
          subs' = [id \in DOMAIN subs \ GetByUserAndType(u, t) |-> subs[id]]
    /\ query' = <<>>
    /\ UNCHANGED <<now, types, nextID, tasks, dispVars, rlVars, schedVars>>

NextSubs ==
    \/ \E k \in SubTasks, u \in UserIDs, code \in Codes : SubscribeLookup(k, u, code)
    \/ \E k \in SubTasks, upsert \in BOOLEAN : SubscribeWrite(k, upsert)
    \/ \E u \in UserIDs, code \in Codes : Unsubscribe(u, code)
    \/ \E id \in SubIDs : Update(id, FALSE, 0)

SpecSubs == Init /\ [][NextSubs]_vars

\* ------------------------------------------------------------------------
\* Claims about concurrent Subscribe and Unsubscribe (checked under SpecSubs)
\* ------------------------------------------------------------------------
\* The active subscription rows of user u to type t
ActiveOf(u, t) == {id \in GetByUserAndType(u, t) : subs[id].is_active}

GenCodes == {"coinbase", "security"}       \* a code with and one without generator
Generators == {"coinbase", "news", "weather", "price_alert", "custom"}
NextTypeID == 6                            \* SERIAL value after the five seeded types

\* NotificationTypeServiceImpl.CreateType(code, name, description, defaultInterval)
CreateType(code, defaultInterval) ==
    /\ GetByCode(code) = {}
    /\ types' = types @@ (NextTypeID :>
                   [code |-> code, default_interval_minutes |-> defaultInterval,
                    is_active |-> TRUE])
    /\ query' = <<>>
    /\ UNCHANGED <<now, subs, nextID, tasks, dispVars, rlVars, schedVars>>

NextGen ==
    \/ Tick
    \/ CreateType("security", 1)
    \/ \E u \in UserIDs, code \in GenCodes : nextID <= MaxSubs /\ Subscribe(u, code, <<>>)
    \/ \E p \in Dispatchers, code \in GenCodes, storeOK \in BOOLEAN :
          DispatchNotification(p, code, storeOK) /\ UNCHANGED schedVars
    \/ \E p \in Dispatchers, upstreamOK \in BOOLEAN, len \in MsgLens :
          Generate(p, upstreamOK, len)
    \/ \E p \in Dispatchers, logOK \in BOOLEAN : Validate(p, logOK)
    \/ \E p \in Dispatchers, sendOK \in BOOLEAN, logOK \in BOOLEAN : Send(p, sendOK, logOK)
    \/ \E p \in Dispatchers, logOK \in BOOLEAN : LogSent(p, logOK)
    \/ \E p \in Dispatchers, markOK \in BOOLEAN : Mark(p, markOK)

SpecGen == Init /\ [][NextGen]_vars

\* ------------------------------------------------------------------------
\* Claims about a category without generator (checked under SpecGen)
\* ------------------------------------------------------------------------
\* Subscription id belongs to a category whose code has no generator
NoGenerator(id) ==
    /\ id \in DOMAIN subs
    /\ types[subs[id].notification_type_id].code \notin Generators

\* C23: content generation for a category code without generator is an error
\* and yields no default message: for a subscription of such a category the
\* pipeline ends with an error, nothing is sent and last_notified_at is not
\* advanced.
C23_NoGeneratorNothingSent ==
    /\ \A r \in Outcomes :
          NoGenerator(r.sub) => ~r.generated /\ r.err /\ ~r.delivered /\ ~Advanced(r)
    /\ \A k \in 1..Len(sent) : ~NoGenerator(sent[k].subscription_id)
    /\ \A id \in DOMAIN subs : NoGenerator(id) => subs[id].last_notified_at = NULL

\* C23 witness: a cycle over the due subscriptions of 'security' has returned;
\* each of them ended in the generation error
C23_Witness ==
    \E p \in DOMAIN disp :
        /\ disp[p].pc = "done" /\ disp[p].code = "security"
        /\ Len(disp[p].res) = 2
        /\ \A k \in 1..Len(disp[p].res) :
              /\ NoGenerator(disp[p].res[k].sub)
              /\ disp[p].res[k].err /\ ~disp[p].res[k].generated
        /\ sent = <<>>

\* ------------------------------------------------------------------------
\* Further claims about one DispatchNotification cycle (checked under Spec)
\* ------------------------------------------------------------------------
\* C24: every due subscription processed in a DispatchNotification call ends
\* with a log write for it, and the entry written reflects its outcome: 'sent'
\* when the message was delivered, 'failed' when content generation,
\* validation or delivery failed.
C24_EveryOutcomeLogged ==
    \A r \in Outcomes :
        /\ r.logWrite # "none"
        /\ r.logWrite = "ok" => LogEntryOf(r, IF r.delivered THEN "sent" ELSE "failed")

\* ------------------------------------------------------------------------
\* Further claims about the rate limiter (checked under SpecRL)
\* ------------------------------------------------------------------------
\* C25: a request of a user arriving at least 1 second after that user's last
\* admitted message and more than 60 seconds after window_start resets the
\* window and is admitted as the first of the new one (count 1, last and
\* window_start the time of the request); when 60 seconds or less have passed
\* since window_start the window is not reset.
C25_WindowReset ==
    [][\A u \in ChatUsers :
          (Called(u) /\ clock' - limiter[u].LastMessage >= MIN_MESSAGE_INTERVAL) =>
              IF clock' - limiter[u].WindowStart > RATE_LIMIT_WINDOW
              THEN /\ reply'[1].allowed
                   /\ limiter'[u] = [LastMessage |-> clock', MessageCount |-> 1,
                                     WindowStart |-> clock']
              ELSE /\ limiter'[u].WindowStart = limiter[u].WindowStart
                   /\ limiter'[u].MessageCount >= limiter[u].MessageCount]_vars

\* C25 witness: a request more than 60 seconds after the first message of the
\* user was admitted as the first of a new window
C25_Witness ==
    /\ reply # <<>>
    /\ reply[1].allowed
    /\ reply[1].at > RATE_LIMIT_WINDOW
    /\ limiter[reply[1].user] = [LastMessage |-> reply[1].at, MessageCount |-> 1,
                                 WindowStart |-> reply[1].at]

\* The last call was denied because the quota of the window is used up
QuotaDenied == reply # <<>> /\ ~reply[1].allowed /\ reply[1].reason = "rate_limit"

\* 60 seconds minus (now - window_start) at the last call
RemainingWindow == RATE_LIMIT_WINDOW - (reply[1].at - limiter[reply[1].user].WindowStart)

\* C26 as stated: whenever a request is denied because the quota is used up,
\* the reported retry time equals 60 seconds minus (now - window_start) and
\* lies between 0 and 60 seconds.
C26_RetryTimeExact ==
    QuotaDenied =>
        /\ reply[1].remaining = RemainingWindow
        /\ 0 <= reply[1].remaining /\ reply[1].remaining <= RATE_LIMIT_WINDOW

\* C26 amended: the reported retry time is 60 seconds minus
\* (now - window_start) rounded to the nearest whole second, a half second
\* rounded up; both the remaining time and the reported value lie between 0
\* and 60 seconds.
C26_RetryTimeRounded ==
    QuotaDenied =>
        /\ reply[1].remaining % 2 = 0
        /\ reply[1].remaining - RemainingWindow \in {0, 1}
        /\ 0 <= RemainingWindow /\ RemainingWindow <= RATE_LIMIT_WINDOW
        /\ 0 <= reply[1].remaining /\ reply[1].remaining <= RATE_LIMIT_WINDOW

\* C26 witness: a quota denial at a moment when the remaining window time is
\* not a whole number of seconds
C26_Witness == QuotaDenied /\ RemainingWindow % 2 = 1

\* ------------------------------------------------------------------------
\* The background sweep of the rate limiter (RateLimiter.cleanup): each run
\* holds rl.mutex, so it is one step between IsAllowed calls
\* ------------------------------------------------------------------------
\* Mutant: a record exactly one hour old is removed as well
Stale_AtHour(user, t) == t - user.LastMessage >= CLEANUP_AGE

\* now.Sub(user.LastMessage) > time.Hour
Stale(user, t) == t - user.LastMessage > CLEANUP_AGE

\* One run of the loop body of cleanup, gap half seconds after the last step
cleanup(gap) ==
    LET t == clock + gap
        removed == {u \in DOMAIN limiter : Stale(limiter[u], t)}
    IN /\ Len(history) < MaxSweepSteps
       /\ t <= MaxSweepClock
       /\ clock' = t
       /\ limiter' = [u \in DOMAIN limiter \ removed |-> limiter[u]]
       /\ history' = Append(history, [op |-> "cleanup", user |-> 0, at |-> t,
                                      allowed |-> FALSE, removed |-> removed])
       /\ UNCHANGED <<storeVars, dispVars, schedVars, reply, observed, lockVars>>

\* IsAllowed(userID), gap half seconds after the last step
SweepRequest(userID, gap) ==
    /\ Len(history) < MaxSweepSteps
    /\ clock + gap <= MaxSweepClock
    /\ IsAllowedAt(userID, clock + gap)
    /\ history' = Append(history, [op |-> "IsAllowed", user |-> userID, at |-> clock',
                                   allowed |-> reply'[1].allowed, removed |-> {}])

NextSweep ==
    \/ \E userID \in UserIDs, gap \in SweepGaps : SweepRequest(userID, gap)
    \/ \E gap \in SweepGaps : cleanup(gap)

SpecSweep == Init /\ [][NextSweep]_vars

\* ------------------------------------------------------------------------
\* Claims about the sweep (checked under SpecSweep)
\* ------------------------------------------------------------------------
\* The step appends an entry of the given operation to the history
Did(op) == Len(history') = Len(history) + 1 /\ history'[Len(history')].op = op

\* C27: each run of the sweep removes exactly the records whose last admitted
\* message is more than 1 hour old and leaves every other record unchanged; a
\* user whose record was removed is treated by the next IsAllowed as a user
\* without record and is admitted.
C27_SweepRemovesStale ==
    [][/\ Did("cleanup") =>
            /\ DOMAIN limiter' \subseteq DOMAIN limiter
            /\ \A u \in DOMAIN limiter :
                  IF clock' - limiter[u].LastMessage > CLEANUP_AGE
                  THEN u \notin DOMAIN limiter'
                  ELSE u \in DOMAIN limiter' /\ limiter'[u] = limiter[u]
       /\ \A u \in UserIDs :
            (Did("IsAllowed") /\ reply'[1].user = u /\ u \notin DOMAIN limiter) =>
                /\ reply'[1].allowed
                /\ limiter'[u] = [LastMessage |-> clock', MessageCount |-> 1,
                                  WindowStart |-> clock']]_vars

\* C27 witness: of two users with a record the sweep removed the one whose
\* last message was more than an hour old and kept the one whose last message
\* was exactly an hour old; the removed user was then admitted again
C27_Witness ==
    /\ Len(history) = 4
    /\ history[1].op = "IsAllowed" /\ history[1].allowed
    /\ history[2].op = "IsAllowed" /\ history[2].allowed
    /\ history[2].user # history[1].user
    /\ history[3].op = "cleanup"
    /\ history[3].removed = {history[1].user}
    /\ history[3].at - history[2].at = CLEANUP_AGE
    /\ history[4].op = "IsAllowed" /\ history[4].user = history[1].user
    /\ history[4].allowed
    /\ limiter[history[2].user].LastMessage = history[2].at
    /\ limiter[history[4].user].MessageCount = 1

\* C28: when the due-subscription query fails because the store is
\* unavailable, DispatchNotification returns an error and changes nothing: no
\* pipeline is started, no message is sent, no log entry is written and no
\* last_notified_at is advanced.
C28_StoreFailureChangesNothing ==
    [][\A p \in Dispatchers, code \in Codes :
          DispatchNotification(p, code, FALSE) =>
              /\ disp'[p].pc = "done" /\ disp'[p].ret = "err"
              /\ disp'[p].due = <<>> /\ disp'[p].res = <<>>
              /\ sent' = sent /\ logs' = logs /\ subs' = subs]_vars

\* C28 witness: a call has returned the error while subscriptions of its
\* category are due; nothing was sent, logged or advanced
C28_Witness ==
    \E p \in Dispatchers :
        /\ disp[p].pc = "done" /\ disp[p].ret = "err"
        /\ UNION {GetDueForNotification(t) : t \in GetByCode(disp[p].code)} # {}
        /\ sent = <<>> /\ logs = <<>>
        /\ \A id \in DOMAIN subs : subs[id].last_notified_at = NULL

\* The step is the MarkNotified call of the pipeline of subscription id
MarksRow(id) ==
    \E p \in DOMAIN disp : disp[p].pc = "mark" /\ disp[p].due[disp[p].i] = id

DirectCall(p) == disp'[p].calls = disp[p].calls + 1 /\ disp'[p].code = ""

\* C30: DispatchToSubscription validates, sends and logs the given message
\* for the given subscription whether or not that subscription is due, and
\* leaves its last_notified_at unchanged, so the rows the due query selects
\* are the same before and after the call.
C30_DirectDispatchLeavesSchedule ==
    [][\A p \in Dispatchers :
          DirectCall(p) =>
              LET r == disp'[p].res[1]
                  entry == [subscription_id |-> r.sub,
                            status |-> IF r.delivered THEN "sent" ELSE "failed"]
              IN /\ r.valid <=> (r.len > 0 /\ r.len <= MAX_MESSAGE_LENGTH)
                 /\ r.delivered => r.valid
                 /\ sent' = IF r.delivered
                            THEN Append(sent, [subscription_id |-> r.sub, len |-> r.len])
                            ELSE sent
                 /\ logs' = IF r.logWrite = "ok" THEN Append(logs, entry) ELSE logs
                 /\ subs' = subs
                 /\ \A t \in DOMAIN types :
                       GetDueForNotification(t)' = GetDueForNotification(t)]_vars

\* C30 witness: a message was delivered and logged by a direct dispatch for a
\* subscription that a cycle had notified in the same minute, so it was not
\* due; its last_notified_at is as the cycle left it
C30_Witness ==
    \E p \in Dispatchers :
        /\ disp[p].pc = "done" /\ disp[p].code = "" /\ disp[p].calls = 2
        /\ LET r == disp[p].res[1]
           IN /\ r.delivered /\ LogEntryOf(r, "sent")
              /\ r.before = now /\ subs[r.sub].last_notified_at = now
              /\ r.sub \notin GetDueForNotification(subs[r.sub].notification_type_id)
              /\ sent[Len(sent)].subscription_id = r.sub

\* ------------------------------------------------------------------------
\* Rate limiter calls of concurrent goroutines: IsAllowed locks rl.mutex,
\* reads the record, writes it and unlocks on return (defer);
\* IsAllowedWithContext starts a goroutine that locks and reports on a
\* channel of capacity 1, and waits for the report or for ctx.Done()
\* ------------------------------------------------------------------------
\* Half a second passes
LockTick ==
    /\ clock < MaxLockClock
    /\ clock' = clock + 1
    /\ UNCHANGED <<storeVars, dispVars, schedVars, limiter, reply, observed, history, lockVars>>

\* Goroutine k calls IsAllowed (withCtx FALSE) or IsAllowedWithContext for
\* userID; blocked: the mutex is held at that moment
Call(k, userID, withCtx) ==
    LET c == callers[k] IN
    /\ c.pc \in {"idle", "done"}
    /\ c.go = "none"
    /\ c.calls < MaxLockCalls
    /\ callers' = [callers EXCEPT ![k] =
          [pc |-> IF withCtx THEN "select" ELSE "lock", user |-> userID,
           withCtx |-> withCtx, go |-> IF withCtx THEN "lock" ELSE "none",
           blocked |-> mutex # "free", at |-> 0, d |-> <<>>, ret |-> "none",
           calls |-> c.calls + 1]]
    /\ UNCHANGED <<storeVars, dispVars, schedVars, clock, limiter, reply, observed, history, mutex>>

\* Mutant: Lock() does not wait for the holder
Acquire_NoMutex(k) ==
    /\ callers[k].pc = "lock"
    /\ mutex' = k
    /\ callers' = [callers EXCEPT ![k].pc = "check"]
    /\ UNCHANGED <<storeVars, dispVars, schedVars, clock, limiter, reply, observed, history>>

\* rl.mutex.Lock() of IsAllowed returns
Acquire(k) ==
    /\ callers[k].pc = "lock"
    /\ mutex = "free"
    /\ mutex' = k
    /\ callers' = [callers EXCEPT ![k].pc = "check"]
    /\ UNCHANGED <<storeVars, dispVars, schedVars, clock, limiter, reply, observed, history>>

\* The goroutine of IsAllowedWithContext: rl.mutex.Lock() returns and true is
\* put on the channel acquired; the goroutine ends
GoAcquire(k) ==
    /\ callers[k].go = "lock"
    /\ mutex = "free"
    /\ mutex' = k
    /\ callers' = [callers EXCEPT ![k].go = "sent"]
    /\ UNCHANGED <<storeVars, dispVars, schedVars, clock, limiter, reply, observed, history>>

\* select of IsAllowedWithContext takes case <-ctx.Done(): the timeout denial
\* is returned; nothing of the call refers to the goroutine any more
Timeout(k) ==
    /\ callers[k].pc = "select"
    /\ callers' = [callers EXCEPT ![k].pc = "done", ![k].ret = "timeout"]
    /\ UNCHANGED <<storeVars, dispVars, schedVars, clock, limiter, reply, observed, history, mutex>>

\* select of IsAllowedWithContext takes case <-acquired
Receive(k) ==
    /\ callers[k].pc = "select"
    /\ callers[k].go = "sent"
    /\ callers' = [callers EXCEPT ![k].pc = "check", ![k].go = "none"]
    /\ UNCHANGED <<storeVars, dispVars, schedVars, clock, limiter, reply, observed, history, mutex>>

\* The body up to the decision: time.Now(), the lookup of the record and the tests
Check(k) ==
    LET c == callers[k] IN
    /\ c.pc = "check"
    /\ callers' = [callers EXCEPT
          ![k].pc = "update",
          ![k].at = clock,
          ![k].d = <<IF c.user \in DOMAIN limiter THEN Decide(limiter[c.user], clock)
                     ELSE FirstMessage(clock)>>]
    /\ UNCHANGED <<storeVars, dispVars, schedVars, clock, limiter, reply, observed, history, mutex>>

\* The writes to the record, the return and the deferred rl.mutex.Unlock()
WriteBack(k) ==
    LET c == callers[k]
        d == c.d[1]
    IN /\ c.pc = "update"
       /\ limiter' = IF c.user \in DOMAIN limiter
                     THEN [limiter EXCEPT ![c.user] = d.user]
                     ELSE limiter @@ (c.user :> d.user)
       /\ reply' = <<[user |-> c.user, allowed |-> d.allowed, reason |-> d.reason,
                      remaining |-> d.remaining, at |-> c.at]>>
       /\ history' = Append(history, [op |-> "IsAllowed", user |-> c.user, at |-> c.at,
                                      allowed |-> d.allowed, removed |-> {}])
       /\ mutex' = "free"
       /\ callers' = [callers EXCEPT ![k].pc = "done",
                                     ![k].ret = IF d.allowed THEN "allowed" ELSE d.reason]
       /\ UNCHANGED <<storeVars, dispVars, schedVars, clock, observed>>

NextLock ==
    \/ LockTick
    \/ \E k \in RLTasks, userID \in ChatUsers, withCtx \in BOOLEAN : Call(k, userID, withCtx)
    \/ \E k \in RLTasks : Acquire(k)
    \/ \E k \in RLTasks : GoAcquire(k)
    \/ \E k \in RLTasks : Timeout(k)
    \/ \E k \in RLTasks : Receive(k)
    \/ \E k \in RLTasks : Check(k)
    \/ \E k \in RLTasks : WriteBack(k)

SpecLock == Init /\ [][NextLock]_vars

\* Every goroutine that can take a step of its call takes it; when a context
\* ends is not up to the limiter
SpecLockFair ==
    /\ SpecLock
    /\ \A k \in RLTasks :
          /\ WF_vars(Acquire(k)) /\ WF_vars(GoAcquire(k)) /\ WF_vars(Receive(k))
          /\ WF_vars(Check(k)) /\ WF_vars(WriteBack(k))

\* ------------------------------------------------------------------------
\* Claims about concurrent rate limiter calls (checked under SpecLock and
\* SpecLockFair)
\* ------------------------------------------------------------------------
\* The requests of user u admitted since the start of its current window
AdmittedInWindow(u) ==
    {j \in 1..Len(history) :
        /\ history[j].user = u
        /\ history[j].allowed
        /\ history[j].at >= limiter[u].WindowStart}

\* C31: concurrent calls are serialised by the one lock, so the check and
\* update of a call is atomic: of the calls of one user that read the time
\* within the same second at most one is admitted, and the stored count is the
\* number of requests admitted in the current window.
C31_CallsSerialised ==
    /\ \A a, b \in 1..Len(history) :
          (/\ a < b
           /\ history[a].user = history[b].user
           /\ history[a].allowed /\ history[b].allowed) =>
              history[b].at - history[a].at >= MIN_MESSAGE_INTERVAL
    /\ \A u \in DOMAIN limiter :
          limiter[u].MessageCount = Cardinality(AdmittedInWindow(u))
    /\ Cardinality({k \in RLTasks : callers[k].pc \in {"check", "update"}}) <= 1

\* C31 witness: two calls of one user were in flight together, the second one
\* waiting for the lock; they read the same time, one was admitted and the
\* other denied as too fast
C31_Witness ==
    \E a, b \in RLTasks :
        /\ a # b
        /\ callers[a].pc = "done" /\ callers[b].pc = "done"
        /\ ~callers[a].withCtx /\ ~callers[b].withCtx
        /\ callers[a].user = callers[b].user
        /\ callers[b].blocked
        /\ callers[a].at = callers[b].at
        /\ callers[a].ret = "allowed" /\ callers[b].ret = "too_fast"
        /\ limiter[callers[a].user].MessageCount = 1

\* C35: after IsAllowedWithContext has returned the timeout denial the lock
\* is eventually free again, so that later calls are not blocked forever.
C35_LockReleasedAfterTimeout ==
    \A k \in RLTasks : (callers[k].ret = "timeout") ~> (mutex = "free")

\* ------------------------------------------------------------------------
\* Claims about the order of the pipeline steps (checked under Spec)
\* ------------------------------------------------------------------------
\* C32: within the pipeline of one subscription the steps run strictly in
\* sequence: content is generated before validation, validation precedes the
\* send, the log entry is written only after the send attempt has returned,
\* and last_notified_at is advanced only after the 'sent' log step.
C32_StepsInSequence ==
    /\ [](\A p \in Dispatchers :
            LET d == disp[p] IN
            /\ d.pc = "validate" =>
                  d.cur.generated /\ ~d.cur.valid /\ ~d.cur.delivered
                  /\ d.cur.logWrite = "none"
            /\ d.pc = "send" =>
                  d.cur.generated /\ d.cur.valid /\ ~d.cur.delivered
                  /\ d.cur.logWrite = "none"
            /\ d.pc = "logsent" =>
                  d.cur.valid /\ d.cur.delivered /\ d.cur.logWrite = "none"
            /\ d.pc = "mark" =>
                  d.cur.delivered /\ d.cur.logWrite # "none" /\ d.cur.markWrite = "none")
    /\ [][\A p \in Dispatchers :
            LET d == disp[p] IN
            /\ sent' # sent => d.pc = "send"
            /\ logs' # logs =>
                  \/ d.pc = "validate" /\ ~ValidateMessageString(d.content)
                  \/ d.pc = "send" /\ sent' = sent
                  \/ d.pc = "logsent"
            /\ (\E id \in DOMAIN subs :
                   subs'[id].last_notified_at # subs[id].last_notified_at) => d.pc = "mark"
            /\ disp'[p] # d =>
                  /\ disp'[p].pc = "validate" => d.pc = "generate"
                  /\ disp'[p].pc = "send" => d.pc = "validate"
                  /\ disp'[p].pc = "logsent" => d.pc = "send"
                  /\ disp'[p].pc = "mark" => d.pc = "logsent"]_vars

\* C32 witness: a pipeline stands before MarkNotified with its message sent
\* and its 'sent' entry written, the row not yet advanced
C32_Witness ==
    \E p \in Dispatchers :
        /\ disp[p].pc = "mark"
        /\ disp[p].cur.delivered
        /\ LogEntryOf(disp[p].cur, "sent")
        /\ sent[Len(sent)].subscription_id = disp[p].cur.sub
        /\ subs[disp[p].cur.sub].last_notified_at = disp[p].cur.before

\* ------------------------------------------------------------------------
\* Claims about the states of a category loop (checked under SpecSched):
\* Waiting is AtSelect, Dispatching a DispatchNotification call in flight,
\* Stopped the goroutine returned
\* ------------------------------------------------------------------------
InDispatch(c) == disp[c].pc \notin {"idle", "done"}

\* C33: a category loop goes Waiting -> Dispatching -> Waiting ... -> Stopped:
\* a dispatch is started only from Waiting and on a tick (none before the
\* ticker has fired for the first time), a dispatch that returns, with an
\* error or without, leaves the loop Waiting, the loop stops only from
\* Waiting, and a stopped loop does nothing more.
C33_LoopStates ==
    /\ [](\A c \in Loops :
            /\ ~(loops[c].stopped /\ InDispatch(c))
            /\ disp[c].pc = "done" => disp[c].ret \in {"nil", "err"})
    /\ [][\A c \in Loops :
            /\ Dispatching(c) => AtSelect(c) /\ loops[c].tick /\ ~loops'[c].tick
            /\ (InDispatch(c) /\ disp'[c].pc = "done") => AtSelect(c)'
            /\ (loops'[c].stopped /\ ~loops[c].stopped) => AtSelect(c)
            /\ loops[c].stopped => loops'[c] = loops[c] /\ disp'[c] = disp[c]]_vars

\* C33 witness: a loop has stopped after two dispatches, the first returned
\* nil after its pipeline, the second an error
C33_Witness ==
    \E c \in Loops :
        /\ loops[c].stopped
        /\ disp[c].calls = 2
        /\ disp[c].pc = "done" /\ disp[c].ret = "err"
        /\ \E k \in 1..Len(logs) : logs[k].status = "sent"
                                   /\ subs[logs[k].subscription_id].notification_type_id
                                         \in GetByCode(c)

\* The dispatch cycles of category x in flight
InFlight(x) == {p \in DOMAIN disp : InDispatch(p) /\ disp[p].code = x}

\* C34: Start runs one loop per category of the schedule and each loop calls
\* DispatchNotification for its own category and waits for it to return, so
\* at most one cycle started by the scheduler is in flight per category.
C34_OneCyclePerCategory ==
    /\ [](/\ DOMAIN loops = Loops
          /\ \A x \in Loops : Cardinality(InFlight(x)) <= 1)
    /\ [][\A c \in Loops :
            Dispatching(c) => ~InDispatch(c) /\ disp'[c].code = c]_vars

\* C34 witness: the loops of two categories each have their own cycle in
\* flight at the same time, one of them its second
C34_Witness ==
    \E c, o \in Loops :
        /\ c # o
        /\ InFlight(c) = {c} /\ InFlight(o) = {o}
        /\ disp[c].calls = 2 /\ disp[c].pc = "send"

\* ------------------------------------------------------------------------
\* Claims about the record of a user (checked under SpecRL)
\* ------------------------------------------------------------------------
\* C36: a call that is denied, as too fast or because the quota is used up,
\* leaves the record of the user (last, count, window_start) exactly as it
\* was.
C36_DenialLeavesRecord ==
    [][\A u \in ChatUsers :
          (Called(u) /\ ~reply'[1].allowed) => limiter'[u] = limiter[u]]_vars

\* C36 witness: a request was denied over the quota a second or more after
\* the last admitted one; the record still shows that one as the last and
\* the count at the quota
C36_Witness ==
    /\ QuotaDenied
    /\ limiter[reply[1].user].MessageCount = RATE_LIMIT_MESSAGES
    /\ reply[1].at - limiter[reply[1].user].LastMessage >= MIN_MESSAGE_INTERVAL
    /\ reply[1].at - limiter[reply[1].user].WindowStart <= RATE_LIMIT_WINDOW

RECURSIVE Own(_, _)
Own(u, n) ==
    IF n = 0 THEN <<>>
    ELSE LET prev == Own(u, n - 1)
             h == history[n]
         IN IF h.op = "cleanup"
            THEN IF prev # <<>> /\ h.at - prev[1].LastMessage > CLEANUP_AGE
                 THEN <<>> ELSE prev
            ELSE IF h.user # u THEN prev
            ELSE IF prev = <<>> THEN <<FirstMessage(h.at).user>>
            ELSE <<Decide(prev[1], h.at).user>>

\* The answer the request of step n gets from the requester's own replay
OwnAnswer(n) ==
    LET prev == Own(history[n].user, n - 1)
    IN IF prev = <<>> THEN TRUE ELSE Decide(prev[1], history[n].at).allowed

\* C40: the decision for a user depends only on that user's own record and
\* the time: a call for user A never changes the record of user B, and
\* whatever other users request in between, the answers to A's requests and
\* A's record are those A's requests alone would have produced.
C40_UsersIndependent ==
    /\ [](/\ \A n \in 1..Len(history) :
                history[n].op = "IsAllowed" => history[n].allowed = OwnAnswer(n)
          /\ \A u \in UserIDs :
                IF Own(u, Len(history)) = <<>> THEN u \notin DOMAIN limiter
                ELSE u \in DOMAIN limiter /\ limiter[u] = Own(u, Len(history))[1])
    /\ [][\A u, o \in UserIDs :
            (Did("IsAllowed") /\ reply'[1].user = u /\ o # u) =>
                IF o \in DOMAIN limiter
                THEN o \in DOMAIN limiter' /\ limiter'[o] = limiter[o]
                ELSE o \notin DOMAIN limiter']_vars

\* C40 witness: between two requests of one user half a second apart another
\* user was admitted; the second request was still denied as too fast and the
\* other user's record is the one its own request created
C40_Witness ==
    /\ Len(history) = 3
    /\ history[1].op = "IsAllowed" /\ history[2].op = "IsAllowed"
    /\ history[3].op = "IsAllowed"
    /\ history[1].user = history[3].user /\ history[2].user # history[1].user
    /\ history[1].allowed /\ history[2].allowed /\ ~history[3].allowed
    /\ history[3].at - history[1].at < MIN_MESSAGE_INTERVAL
    /\ limiter[history[2].user] = [LastMessage |-> history[2].at, MessageCount |-> 1,
                                   WindowStart |-> history[2].at]

\* ------------------------------------------------------------------------
\* Spacing of the scheduled deliveries of one subscription
\* ------------------------------------------------------------------------
\* The "sent" entries of notification_logs for subscription id
SentLogs(id) ==
    {k \in 1..Len(logs) : logs[k].subscription_id = id /\ logs[k].status = "sent"}

UnsubLoops == {"coinbase"}

NextUnsub ==
    \/ Tick
    \/ \E u \in UserIDs, code \in Codes :
          nextID <= Cardinality(SubIDs) /\ Subscribe(u, code, <<>>)
    \/ \E u \in UserIDs, code \in Codes : Unsubscribe(u, code)
    \/ \E c \in UnsubLoops, storeOK \in BOOLEAN :
          DispatchNotification(c, c, storeOK) /\ UNCHANGED schedVars
    \/ \E c \in UnsubLoops : Pipeline(c)

SpecUnsub == InitSched /\ [][NextUnsub]_vars

\* ------------------------------------------------------------------------
\* Claims about Unsubscribe and the cycles after it (checked under SpecUnsub)
\* ------------------------------------------------------------------------
\* The step is the start of a DispatchNotification call of dispatcher c
Begins(c) == disp[c].pc \in {"idle", "done"} /\ disp'[c].calls = disp[c].calls + 1

====
